---------------------------- MODULE Spec2Model ----------------------------
(***************************************************************************)
(* mensabot (src/main.go): the websocket event filter, the command         *)
(* dispatcher and the group-order ledger, as a state machine.              *)
(*                                                                         *)
(* A text is a sequence of one-character strings.  The regular expressions *)
(* of main.go are operators over such texts; a reply is kept as the tuple  *)
(* of the parts main.go concatenates into it.                              *)
(***************************************************************************)
EXTENDS Naturals, Sequences, FiniteSets

(***************************************************************************)
(* Characters and the character classes of Go's regexp package             *)
(***************************************************************************)
LowerLetters ==
    <<"a","b","c","d","e","f","g","h","i","j","k","l","m",
      "n","o","p","q","r","s","t","u","v","w","x","y","z">>

UpperLetters ==
    <<"A","B","C","D","E","F","G","H","I","J","K","L","M",
      "N","O","P","Q","R","S","T","U","V","W","X","Y","Z">>

Digits == {"0","1","2","3","4","5","6","7","8","9"}

Range(s) == { s[i] : i \in DOMAIN s }

\* \w of Go's regexp: [0-9A-Za-z_]
IsWordChar(c) == c \in Range(LowerLetters) \cup Range(UpperLetters) \cup Digits \cup {"_"}

\* simple case folding of one character, as (?i) applies it
FoldChar(c) ==
    IF c \in Range(UpperLetters)
    THEN LowerLetters[CHOOSE i \in DOMAIN UpperLetters : UpperLetters[i] = c]
    ELSE c

Fold(s) == [ i \in DOMAIN s |-> FoldChar(s[i]) ]

\* the text s occurs in m starting at position i
OccursAt(s, m, i) ==
    /\ i >= 1
    /\ i + Len(s) - 1 <= Len(m)
    /\ \A k \in 1..Len(s) : m[i + k - 1] = s[k]

\* (?i)(?:^|\W)(k1|k2|...)(?:$|\W) has a match in m
MatchKeyword(keywords, m) ==
    \E kw \in keywords : \E i \in 1..Len(m) :
        /\ OccursAt(kw, Fold(m), i)
        /\ (i = 1 \/ ~IsWordChar(m[i - 1]))
        /\ (i + Len(kw) - 1 = Len(m) \/ ~IsWordChar(m[i + Len(kw)]))

(***************************************************************************)
(* The keyword patterns, main.go lines 29-40                               *)
(***************************************************************************)
REG_EXP_STATUS_WORDS ==
    { <<"a","l","i","v","e">>,
      <<"r","u","n","n","i","n","g">>,
      <<"u","p">> }

REG_EXP_STATUS(m) == MatchKeyword(REG_EXP_STATUS_WORDS, m)

REG_EXP_HELP_WORDS ==
    { <<"c","o","m","m","a","n","d">>,
      <<"c","o","m","m","a","n","d","s">>,
      <<"h","e","l","p">> }

REG_EXP_HELP(m) == MatchKeyword(REG_EXP_HELP_WORDS, m)

REG_EXP_LEGEND_WORDS ==
    { <<"l","e","g","e","n","d">>,
      <<"l","e","g","e","n","d","e">>,
      <<"z","u","s","a","t","z","s","t","o","f","f">>,
      <<"z","u","s","a","t","z","s","t","o","f","f","e">>,
      <<"n","u","m","m","e","r">>,
      <<"n","u","m","m","e","r","n">> }

REG_EXP_LEGEND(m) == MatchKeyword(REG_EXP_LEGEND_WORDS, m)

REG_EXP_TODAY_WORDS ==
    { <<"h","e","u","t","e">>,
      <<"t","o","d","a","y">>,
      <<"h","u","n","g","e","r">> }

REG_EXP_TODAY(m) == MatchKeyword(REG_EXP_TODAY_WORDS, m)

REG_EXP_TOMORROW_WORDS ==
    { <<"m","o","r","g","e","n">>,
      <<"t","o","m","o","r","r","o","w">> }

REG_EXP_TOMORROW(m) == MatchKeyword(REG_EXP_TOMORROW_WORDS, m)

REG_EXP_THANKS_WORDS ==
    { <<"d","a","n","k">>,
      <<"d","a","n","k","e">>,
      <<"t","h","a","n","k">>,
      <<"t","h","a","n","k","s">> }

REG_EXP_THANKS(m) == MatchKeyword(REG_EXP_THANKS_WORDS, m)

\* the sub-commands REG_EXP_ORDER admits
ORDER_COMMANDS ==
    { <<"o","p","e","n">>,
      <<"s","u","b","m","i","t">>,
      <<"l","i","s","t">>,
      <<"c","l","o","s","e">> }

\* the name of a sub-command, as handleOrder's switch compares it
CommandName(c) ==
    CASE c = <<"o","p","e","n">> -> "open"
      [] c = <<"s","u","b","m","i","t">> -> "submit"
      [] c = <<"l","i","s","t">> -> "list"
      [] c = <<"c","l","o","s","e">> -> "close"
      [] OTHER -> ""

\* the last position of the run of \w characters that starts at position i
\* (i - 1 when there is none)
RECURSIVE WordRunEnd(_, _)
WordRunEnd(m, i) ==
    IF i <= Len(m) /\ IsWordChar(m[i]) THEN WordRunEnd(m, i + 1) ELSE i - 1

ORDER_LITERAL == <<" ","o","r","d","e","r"," ">>

\* ^@\w+ order (?P<command>open|submit|list|close) ?(?P<content>.*)$
\* the match of REG_EXP_ORDER in m: [ok, command, content]
OrderSubmatch(m) ==
    LET j == WordRunEnd(m, 2)
        p == j + 1 + Len(ORDER_LITERAL)
        cmds == { c \in ORDER_COMMANDS : OccursAt(c, m, p) }
        NoMatch == [ok |-> FALSE, command |-> "", content |-> <<>>]
    IN  IF Len(m) >= 1 /\ m[1] = "@" /\ j >= 2 /\ OccursAt(ORDER_LITERAL, m, j + 1) /\ cmds # {}
        THEN LET c == CHOOSE c \in cmds : TRUE
                 q == p + Len(c)
                 r == IF q <= Len(m) /\ m[q] = " " THEN q + 1 ELSE q
                 content == SubSeq(m, r, Len(m))
             IN  IF \E k \in q..Len(m) : m[k] = "\n"
                 THEN NoMatch
                 ELSE [ok |-> TRUE, command |-> CommandName(c), content |-> content]
        ELSE NoMatch

REG_EXP_ORDER(m) == OrderSubmatch(m).ok

(***************************************************************************)
(* Identities, texts and inbound events the environment can deliver        *)
(***************************************************************************)
\* the ids of the human users, and bot.user.Id
UserIds == {"A", "B", "C"}

BotId == "bot"

DebugChannel == "debug"

Channels == {DebugChannel, "town"}

\* bot.client.GetUser(id).Username; the lookup is taken to succeed, as the
\* ids it is given are those of authors of delivered posts
Username(id) ==
    CASE id = "A" -> "alice"
      [] id = "B" -> "bob"
      [] id = "C" -> "carol"
      [] OTHER -> "mensabot"

Pizza == <<"P","i","z","z","a">>

Sushi == <<"S","u","s","h","i">>

Margherita == <<"M","a","r","g","h","e","r","i","t","a">>

MarPipeGherita == <<"M","a","r","|","g","h","e","r","i","t","a">>

Today == <<"t","o","d","a","y">>

\* the descriptions "order open" is sent with
OpenTexts == {<<>>, Pizza, Sushi}

\* the texts "order submit" is sent with
SubmitTexts == {<<>>, Margherita, MarPipeGherita}

AtBot == <<"@","b","o","t">>

\* "@bot order <c> <content>"
OrderText(c, content) ==
    AtBot \o ORDER_LITERAL \o c \o (IF content = <<>> THEN <<>> ELSE <<" ">> \o content)

\* messages of the form of an order command; the last one also holds a
\* keyword of REG_EXP_TODAY
OrderMessages ==
    { OrderText(<<"o","p","e","n">>, c) : c \in OpenTexts }
    \cup { OrderText(<<"s","u","b","m","i","t">>, c) : c \in SubmitTexts }
    \cup { OrderText(<<"l","i","s","t">>, <<>>), OrderText(<<"c","l","o","s","e">>, <<>>) }
    \cup { OrderText(<<"o","p","e","n">>, Today) }

\* one message per remaining branch of handleCommand
KeywordMessages ==
    { AtBot \o <<" ">> \o w :
        w \in { <<"u","p">>, <<"h","e","u","t","e">>, <<"m","o","r","g","e","n">>,
                <<"l","e","g","e","n","d","e">>, <<"h","e","l","p">>,
                <<"d","a","n","k","e">>, <<"m","o","i","n">> } }

Messages == OrderMessages \cup KeywordMessages

\* the message sent through every variant of the event filter
ProbeMessages == { OrderText(<<"o","p","e","n">>, Pizza) }

\* to upper case, letter by letter
UpperChar(c) ==
    IF c \in Range(LowerLetters)
    THEN UpperLetters[CHOOSE i \in DOMAIN LowerLetters : LowerLetters[i] = c]
    ELSE c

Upper(s) == [ i \in DOMAIN s |-> UpperChar(s[i]) ]

\* lower-case messages for the classifier: one per branch of handleCommand,
\* messages that match the patterns of two branches, and order commands
\* whose content holds a keyword
ClassifyTexts ==
    {
      <<"@","b","o","t"," ","u","p">>,
      <<"@","b","o","t"," ","t","o","d","a","y">>,
      <<"@","b","o","t"," ","m","o","r","g","e","n">>,
      <<"@","b","o","t"," ","l","e","g","e","n","d","e">>,
      <<"@","b","o","t"," ","h","e","l","p">>,
      <<"@","b","o","t"," ","d","a","n","k","e">>,
      <<"@","b","o","t"," ","m","o","i","n">>,
      <<"@","b","o","t"," ","h","e","l","p"," ","t","o","d","a","y">>,
      <<"@","b","o","t"," ","u","p"," ","t","o","d","a","y">>,
      <<"@","b","o","t"," ","h","e","u","t","e"," ","m","o","r","g","e","n">>,
      <<"@","b","o","t"," ","l","e","g","e","n","d","e"," ","h","e","l","p">>,
      <<"@","b","o","t"," ","h","e","l","p"," ","d","a","n","k","e">>,
      <<"@","b","o","t"," ","o","r","d","e","r"," ","o","p","e","n"," ","p","i","z","z","a">>,
      <<"@","b","o","t"," ","o","r","d","e","r"," ","s","u","b","m","i","t"," ","m","a","r","g","h","e","r","i","t","a">>,
      <<"@","b","o","t"," ","o","r","d","e","r"," ","l","i","s","t">>,
      <<"@","b","o","t"," ","o","r","d","e","r"," ","c","l","o","s","e">>,
      <<"@","b","o","t"," ","o","r","d","e","r"," ","s","u","b","m","i","t"," ","u","p">>,
      <<"@","b","o","t"," ","o","r","d","e","r"," ","o","p","e","n"," ","t","o","d","a","y">>,
      <<"@","b","o","t"," ","o","r","d","e","r"," ","s","u","b","m","i","t"," ","t","o","m","o","r","r","o","w">>,
      <<"@","b","o","t"," ","o","r","d","e","r"," ","l","i","s","t"," ","l","e","g","e","n","d","e">> }

\* the same order command with a capital in "order", or in the sub-command
CapitalisedOrders ==
    { <<"@","b","o","t"," ","O","r","d","e","r"," ","o","p","e","n"," ","p","i","z","z","a">>,
      <<"@","b","o","t"," ","o","r","d","e","r"," ","O","p","e","n"," ","p","i","z","z","a">> }

\* the messages sent to the classifier: each text in lower case, in upper
\* case, and the capitalised order commands
ClassifyMessages ==
    ClassifyTexts \cup { Upper(m) : m \in ClassifyTexts } \cup CapitalisedOrders

(***************************************************************************)
(* Dishes: type dish, isFavorite and String, main.go lines 58-123          *)
(***************************************************************************)
\* CONFIG.Favorites, lower-case substrings
Favorites == { <<"p","a","s","t","a">> }

isFavorite(d) ==
    \E f \in Favorites : \E i \in 1..Len(d.name) : OccursAt(f, Fold(d.name), i)

\* the markers of a dish row, in the order String writes them
DishMarkers(d) ==
    (IF isFavorite(d) THEN <<":heart_eyes:">> ELSE <<>>)
    \o (IF d.isVegan THEN <<":sunflower:">>
        ELSE IF d.isVegetarian THEN <<":carrot:">> ELSE <<>>)
    \o (IF d.containsBeef THEN <<":cow2:">> ELSE <<>>)
    \o (IF d.containsPork THEN <<":pig2:">> ELSE <<>>)
    \o (IF d.containsFish THEN <<":fish:">> ELSE <<>>)
    \o (IF d.containsChicken THEN <<":rooster:">> ELSE <<>>)
    \o (IF d.lactoseFree THEN <<":milk_glass:">> ELSE <<>>)

\* dish.String(): the row "| name | markers | p0 // p1 // p2 |" as its parts
DishString(d) == <<d.name, DishMarkers(d), d.prices>>

PastaDish ==
    [ name |-> <<"P","a","s","t","a">>, prices |-> <<"2,50", "3,70", "4,60">>,
      isVegetarian |-> TRUE, isVegan |-> TRUE, containsBeef |-> FALSE,
      containsPork |-> FALSE, containsFish |-> FALSE, containsChicken |-> FALSE,
      lactoseFree |-> TRUE ]

\* what getCanteenPlan can come back with: a panic (ok = FALSE) or a dish list
FetchResults ==
    { [ok |-> FALSE, dishes |-> <<>>],
      [ok |-> TRUE, dishes |-> <<>>],
      [ok |-> TRUE, dishes |-> <<PastaDish>>] }

(***************************************************************************)
(* Inbound websocket events                                                *)
(***************************************************************************)
\* longest "mentions" list the environment sends
MaxMentions == 4

\* a list of n mentioned ids, the bot's the last of them when withBot
MentionList(n, withBot) ==
    [ i \in 1..n |-> IF withBot /\ i = n THEN BotId ELSE "A" ]

NoMentions == [ok |-> FALSE, ids |-> <<>>]

\* event.Data["mentions"]: absent, or a list
MentionData ==
    { NoMentions }
    \cup { [ok |-> TRUE, ids |-> MentionList(n, b)] :
             n \in 0..MaxMentions, b \in BOOLEAN }

\* *model.Post, the fields main.go reads
Posts ==
    [ UserId : UserIds \cup {BotId}, Message : Messages,
      ChannelId : Channels, Id : {"post"} ]

NoPost == [UserId |-> "", Message |-> <<>>, ChannelId |-> "", Id |-> ""]

\* the usual delivery of a post meant for the bot: in the team's channel,
\* with the bot alone mentioned
Direct(p, md) ==
    /\ md = [ok |-> TRUE, ids |-> <<BotId>>]
    /\ p.ChannelId # DebugChannel

\* *model.WebSocketEvent: nil, an event that is no post, a posted event
\* whose post does not parse, and posted events; every user sends every
\* message directly, and the probe message comes from every author with
\* every mention list in every channel
Events ==
    { [isNil |-> TRUE, Event |-> "", postOk |-> FALSE, post |-> NoPost,
       mentions |-> NoMentions],
      [isNil |-> FALSE, Event |-> "typing", postOk |-> FALSE, post |-> NoPost,
       mentions |-> NoMentions],
      [isNil |-> FALSE, Event |-> "posted", postOk |-> FALSE, post |-> NoPost,
       mentions |-> NoMentions] }
    \cup { [isNil |-> FALSE, Event |-> "posted", postOk |-> TRUE, post |-> p,
            mentions |-> md] :
             <<p, md>> \in { x \in Posts \X MentionData :
                               \/ x[1].Message \in ProbeMessages
                               \/ x[1].UserId # BotId /\ Direct(x[1], x[2]) } }

(***************************************************************************)
(* Replies                                                                 *)
(***************************************************************************)
\* a message text, as the parts main.go concatenates: a fixed text, a user
\* name, an order description, table rows
Msg(text, user, detail, rows) ==
    [text |-> text, user |-> user, detail |-> detail, rows |-> rows]

Text(t) == Msg(t, "", <<>>, <<>>)

\* sendMessage: the post it creates
sendMessage(msg, channelID, replyToID) ==
    [Message |-> msg, ChannelId |-> channelID, RootId |-> replyToID]

Started == sendMessage(Text("has **started** running"), DebugChannel, "")

Stopped == sendMessage(Text("has **stopped** running"), DebugChannel, "")

(***************************************************************************)
(* State                                                                   *)
(***************************************************************************)
VARIABLES
    orderUser,    \* bot.orderUser, "" when unset
    orderDetail,  \* bot.orderDetail, <<>> when unset
    orders,       \* bot.orders: user id -> submitted text
    ordersNil,    \* bot.orders is the nil map (never made)
    running,      \* the process has not panicked
    post,         \* the post the last event handed to handleCommand, or NoPost
    sent,         \* the posts sendMessage created while handling the last event
    prev,         \* the ledger as the last event found it
    scenario,     \* how many steps of end-to-end scenario 2 the last events make up
    input,        \* what a run of one function on its own is given
    output,       \* what that function returned
    EventChannel, \* bot.wsClient.EventChannel, as the listener's run of section
                  \* "The listener, statement by statement" sees it
    calls,        \* the calls of handleWebSocketEvent under way in that run
    arrived,      \* how many events the websocket client has delivered in it
    done          \* how many calls of handleWebSocketEvent have returned in it

ledger == <<orderUser, orderDetail, orders, ordersNil>>

\* the variables of the bot as Spec steps it, event by event
botVars == <<orderUser, orderDetail, orders, ordersNil, running, post, sent, prev, scenario>>

\* the variables of the runs of single functions
funVars == <<input, output>>

\* the variables of the listener's run
listenVars == <<EventChannel, calls, arrived, done>>

vars == <<botVars, funVars, listenVars>>

Ledger == [orderUser |-> orderUser, orderDetail |-> orderDetail, orders |-> orders]

\* the state newMensaBotFromConfig leaves: the zero values of the struct
BotInit ==
    /\ orderUser = ""
    /\ orderDetail = <<>>
    /\ orders = [u \in {} |-> <<>>]
    /\ ordersNil = TRUE
    /\ running = TRUE
    /\ post = NoPost
    /\ sent = <<Started>>
    /\ prev = [orderUser |-> "", orderDetail |-> <<>>, orders |-> [u \in {} |-> <<>>]]
    /\ scenario = 0

\* no function is run on its own
FunIdle == input = <<>> /\ output = <<>>

\* the listener is not stepped statement by statement
ListenIdle == EventChannel = <<>> /\ calls = <<>> /\ arrived = 0 /\ done = 0

Init == BotInit /\ FunIdle /\ ListenIdle

(***************************************************************************)
(* The order ledger: handleOrder, main.go lines 358-439                    *)
(***************************************************************************)
\* strings.Replace(s, old, new, -1) for a non-empty old
RECURSIVE Replace(_, _, _)
Replace(s, old, new) ==
    IF s = <<>> THEN <<>>
    ELSE IF OccursAt(old, s, 1)
         THEN new \o Replace(SubSeq(s, Len(old) + 1, Len(s)), old, new)
         ELSE <<s[1]>> \o Replace(Tail(s), old, new)

\* mutant of StripPipe: the text is stored as it came
StripPipe_Identity(content) == content

\* strings.Replace(content, "|", "", -1)
StripPipe(content) == Replace(content, <<"|">>, <<>>)

\* make(map[string]string)
EmptyMap == [u \in {} |-> <<>>]

\* m[k] = v
MapSet(m, k, v) == [u \in DOMAIN m \cup {k} |-> IF u = k THEN v ELSE m[u]]

\* the orders in which a range over a map with key set S can visit its keys
KeyOrders(S) ==
    { o \in [1..Cardinality(S) -> S] : \A i, j \in DOMAIN o : i # j => o[i] # o[j] }

\* the table rows "| @user | order |" for the keys visited in order o
OrderRows(m, o) == [ i \in DOMAIN o |-> <<Username(o[i]), m[o[i]]>> ]

\* mutant of OrderOpen: the owner check is missing, any user updates the
\* description of the active order
OrderOpen_AnyUserUpdates(p, content) ==
    IF orderDetail # <<>>
    THEN /\ orderDetail' = content
         /\ sent' = <<sendMessage(Text("Updated order details"), p.ChannelId, p.Id)>>
         /\ UNCHANGED <<orderUser, orders, ordersNil, running>>
    ELSE /\ orderUser' = p.UserId
         /\ orderDetail' = content
         /\ orders' = EmptyMap
         /\ ordersNil' = FALSE
         /\ sent' = <<sendMessage(Msg("#FoodOrder opened by @", Username(p.UserId), content, <<>>),
                                  p.ChannelId, p.Id)>>
         /\ UNCHANGED running

\* case "open" without the statement that makes the map
OrderOpen_NoMake(p, content) ==
    IF orderDetail # <<>>
    THEN IF orderUser = p.UserId
         THEN /\ orderDetail' = content
              /\ sent' = <<sendMessage(Text("Updated order details"), p.ChannelId, p.Id)>>
              /\ UNCHANGED <<orderUser, orders, ordersNil, running>>
         ELSE /\ sent' = <<sendMessage(Text("Not overwriting active order"), p.ChannelId, p.Id)>>
              /\ UNCHANGED <<orderUser, orderDetail, orders, ordersNil, running>>
    ELSE /\ orderUser' = p.UserId
         /\ orderDetail' = content
         /\ sent' = <<sendMessage(Msg("#FoodOrder opened by @", Username(p.UserId), content, <<>>),
                                  p.ChannelId, p.Id)>>
         /\ UNCHANGED <<orders, ordersNil, running>>

\* case "open"
OrderOpen(p, content) ==
    IF orderDetail # <<>>
    THEN IF orderUser = p.UserId
         THEN /\ orderDetail' = content
              /\ sent' = <<sendMessage(Text("Updated order details"), p.ChannelId, p.Id)>>
              /\ UNCHANGED <<orderUser, orders, ordersNil, running>>
         ELSE /\ sent' = <<sendMessage(Text("Not overwriting active order"), p.ChannelId, p.Id)>>
              /\ UNCHANGED <<orderUser, orderDetail, orders, ordersNil, running>>
    ELSE /\ orderUser' = p.UserId
         /\ orderDetail' = content
         /\ orders' = EmptyMap
         /\ ordersNil' = FALSE
         /\ sent' = <<sendMessage(Msg("#FoodOrder opened by @", Username(p.UserId), content, <<>>),
                                  p.ChannelId, p.Id)>>
         /\ UNCHANGED running

\* mutant of OrderSubmit: the check for an active order is missing
OrderSubmit_NoActiveCheck(p, content) ==
    IF ordersNil
    THEN /\ running' = FALSE
         /\ sent' = <<>>
         /\ UNCHANGED <<orderUser, orderDetail, orders, ordersNil>>
    ELSE /\ orders' = MapSet(orders, p.UserId, StripPipe(content))
         /\ sent' = <<>>
         /\ UNCHANGED <<orderUser, orderDetail, ordersNil, running>>

\* case "submit"; a write to the nil map panics
OrderSubmit(p, content) ==
    IF orderDetail = <<>>
    THEN /\ sent' = <<sendMessage(Text("Cannot submit without active order"), p.ChannelId, p.Id)>>
         /\ UNCHANGED <<orderUser, orderDetail, orders, ordersNil, running>>
    ELSE IF ordersNil
         THEN /\ running' = FALSE
              /\ sent' = <<>>
              /\ UNCHANGED <<orderUser, orderDetail, orders, ordersNil>>
         ELSE /\ orders' = MapSet(orders, p.UserId, StripPipe(content))
              /\ sent' = <<>>
              /\ UNCHANGED <<orderUser, orderDetail, ordersNil, running>>

\* mutant of OrderList: the range stops before the last key of the map
OrderList_DropsLastRow(p) ==
    /\ IF orderDetail = <<>>
       THEN sent' = <<sendMessage(Text("Cannot list without active order"), p.ChannelId, p.Id)>>
       ELSE \E o \in KeyOrders(DOMAIN orders) :
              sent' = <<sendMessage(Msg("**[Active order]** ", "", orderDetail,
                                        OrderRows(orders, SubSeq(o, 1, Len(o) - 1))),
                                    p.ChannelId, p.Id)>>
    /\ UNCHANGED <<orderUser, orderDetail, orders, ordersNil, running>>

\* case "list"
OrderList(p) ==
    /\ IF orderDetail = <<>>
       THEN sent' = <<sendMessage(Text("Cannot list without active order"), p.ChannelId, p.Id)>>
       ELSE \E o \in KeyOrders(DOMAIN orders) :
              sent' = <<sendMessage(Msg("**[Active order]** ", "", orderDetail, OrderRows(orders, o)),
                                    p.ChannelId, p.Id)>>
    /\ UNCHANGED <<orderUser, orderDetail, orders, ordersNil, running>>

\* mutant of OrderClose: bot.orderUser is not reset
OrderClose_KeepsOwner(p) ==
    IF orderDetail # <<>> /\ orderUser # p.UserId
    THEN /\ sent' = <<sendMessage(Msg("Only @ can close the active order", Username(orderUser), <<>>, <<>>),
                                  p.ChannelId, p.Id)>>
         /\ UNCHANGED <<orderUser, orderDetail, orders, ordersNil, running>>
    ELSE IF orderDetail # <<>>
         THEN /\ \E o \in KeyOrders(DOMAIN orders) :
                    sent' = <<sendMessage(Msg("**Closing** active order:", "", <<>>, OrderRows(orders, o)),
                                          p.ChannelId, p.Id)>>
              /\ orderDetail' = <<>>
              /\ UNCHANGED <<orderUser, orders, ordersNil, running>>
         ELSE /\ sent' = <<>>
              /\ UNCHANGED <<orderUser, orderDetail, orders, ordersNil, running>>

\* mutant of OrderClose: the owner check is missing, any user closes
OrderClose_AnyUserCloses(p) ==
    IF orderDetail # <<>>
    THEN /\ \E o \in KeyOrders(DOMAIN orders) :
               sent' = <<sendMessage(Msg("**Closing** active order:", "", <<>>, OrderRows(orders, o)),
                                     p.ChannelId, p.Id)>>
         /\ orderDetail' = <<>>
         /\ orderUser' = ""
         /\ UNCHANGED <<orders, ordersNil, running>>
    ELSE /\ sent' = <<>>
         /\ UNCHANGED <<orderUser, orderDetail, orders, ordersNil, running>>

\* case "close"
OrderClose(p) ==
    IF orderDetail # <<>> /\ orderUser # p.UserId
    THEN /\ sent' = <<sendMessage(Msg("Only @ can close the active order", Username(orderUser), <<>>, <<>>),
                                  p.ChannelId, p.Id)>>
         /\ UNCHANGED <<orderUser, orderDetail, orders, ordersNil, running>>
    ELSE IF orderDetail # <<>>
         THEN /\ \E o \in KeyOrders(DOMAIN orders) :
                    sent' = <<sendMessage(Msg("**Closing** active order:", "", <<>>, OrderRows(orders, o)),
                                          p.ChannelId, p.Id)>>
              /\ orderDetail' = <<>>
              /\ orderUser' = ""
              /\ UNCHANGED <<orders, ordersNil, running>>
         ELSE /\ sent' = <<>>
              /\ UNCHANGED <<orderUser, orderDetail, orders, ordersNil, running>>

\* which patterns match each message the environment or the classifier's
\* run sends, and the order sub-match: the patterns applied once per message
Matches ==
    [ m \in Messages \cup ClassifyMessages |->
        [ status |-> REG_EXP_STATUS(m), today |-> REG_EXP_TODAY(m),
          tomorrow |-> REG_EXP_TOMORROW(m), order |-> REG_EXP_ORDER(m),
          legend |-> REG_EXP_LEGEND(m), help |-> REG_EXP_HELP(m),
          thanks |-> REG_EXP_THANKS(m), submatch |-> OrderSubmatch(m) ] ]

handleOrder(p) ==
    LET m == Matches[p.Message].submatch
    IN  CASE m.command = "open" -> OrderOpen(p, m.content)
          [] m.command = "submit" -> OrderSubmit(p, m.content)
          [] m.command = "list" -> OrderList(p)
          [] m.command = "close" -> OrderClose(p)
          [] OTHER -> /\ sent' = <<>>
                      /\ UNCHANGED <<orderUser, orderDetail, orders, ordersNil, running>>

(***************************************************************************)
(* The dispatcher: handleCommand, main.go lines 502-529                    *)
(***************************************************************************)
\* getCanteenPlan followed by writeDishes; getCanteenPlan panics when the
\* fetch or the parse fails
MenuReply(p, prefix) ==
    /\ \E r \in FetchResults :
         IF r.ok
         THEN /\ sent' = <<sendMessage(Msg(prefix, "", <<>>,
                                           [i \in DOMAIN r.dishes |-> DishString(r.dishes[i])]),
                                       p.ChannelId, p.Id)>>
              /\ UNCHANGED running
         ELSE /\ sent' = <<>>
              /\ running' = FALSE
    /\ UNCHANGED <<orderUser, orderDetail, orders, ordersNil>>

\* a handler that only sends msg
Reply(p, msg) ==
    /\ sent' = <<sendMessage(msg, p.ChannelId, p.Id)>>
    /\ UNCHANGED <<orderUser, orderDetail, orders, ordersNil, running>>

\* writeMyPleasure's answers
Pleasures == <<"My pleasure", "You are very welcome", "Dafuer nicht", "Immer gern">>

\* handleCommand with the order pattern tried first
handleCommand_OrderFirst(p) ==
    IF Matches[p.Message].order THEN handleOrder(p)
    ELSE IF Matches[p.Message].status THEN Reply(p, Text("Yes I'm up and running!"))
    ELSE IF Matches[p.Message].today THEN MenuReply(p, "**Heute gibt es:**")
    ELSE IF Matches[p.Message].tomorrow THEN MenuReply(p, "**Morgen gibt es:**")
    ELSE IF Matches[p.Message].legend THEN Reply(p, Text("**Legende:**"))
    ELSE IF Matches[p.Message].help THEN Reply(p, Text("**Need help?**"))
    ELSE IF Matches[p.Message].thanks
         THEN \E idx \in DOMAIN Pleasures : Reply(p, Text(Pleasures[idx]))
    ELSE Reply(p, Text("**What does this even mean?!**"))

\* handleCommand with the help pattern tried before the menu patterns
handleCommand_HelpFirst(p) ==
    IF Matches[p.Message].status THEN Reply(p, Text("Yes I'm up and running!"))
    ELSE IF Matches[p.Message].help THEN Reply(p, Text("**Need help?**"))
    ELSE IF Matches[p.Message].today THEN MenuReply(p, "**Heute gibt es:**")
    ELSE IF Matches[p.Message].tomorrow THEN MenuReply(p, "**Morgen gibt es:**")
    ELSE IF Matches[p.Message].order THEN handleOrder(p)
    ELSE IF Matches[p.Message].legend THEN Reply(p, Text("**Legende:**"))
    ELSE IF Matches[p.Message].thanks
         THEN \E idx \in DOMAIN Pleasures : Reply(p, Text(Pleasures[idx]))
    ELSE Reply(p, Text("**What does this even mean?!**"))

handleCommand(p) ==
    IF Matches[p.Message].status THEN Reply(p, Text("Yes I'm up and running!"))
    ELSE IF Matches[p.Message].today THEN MenuReply(p, "**Heute gibt es:**")
    ELSE IF Matches[p.Message].tomorrow THEN MenuReply(p, "**Morgen gibt es:**")
    ELSE IF Matches[p.Message].order THEN handleOrder(p)
    ELSE IF Matches[p.Message].legend THEN Reply(p, Text("**Legende:**"))
    ELSE IF Matches[p.Message].help THEN Reply(p, Text("**Need help?**"))
    ELSE IF Matches[p.Message].thanks
         THEN \E idx \in DOMAIN Pleasures : Reply(p, Text(Pleasures[idx]))
    ELSE Reply(p, Text("**What does this even mean?!**"))

(***************************************************************************)
(* The event filter: handleWebSocketEvent, main.go lines 303-343           *)
(***************************************************************************)
\* the filter with the limit on the mention list one higher
Accepted_FourMentions(event) ==
    /\ ~event.isNil
    /\ event.Event = "posted"
    /\ event.postOk
    /\ event.post.UserId # BotId
    /\ IF event.mentions.ok
       THEN /\ Len(event.mentions.ids) <= 4
            /\ \E i \in DOMAIN event.mentions.ids : event.mentions.ids[i] = BotId
       ELSE event.post.ChannelId = DebugChannel

\* the event reaches handleCommand; event.Broadcast.ChannelId is taken to be
\* the channel of the post, post.ChannelId
Accepted(event) ==
    /\ ~event.isNil
    /\ event.Event = "posted"
    /\ event.postOk
    /\ event.post.UserId # BotId
    /\ IF event.mentions.ok
       THEN /\ Len(event.mentions.ids) <= 3
            /\ \E i \in DOMAIN event.mentions.ids : event.mentions.ids[i] = BotId
       ELSE event.post.ChannelId = DebugChannel

\* spec.md, end-to-end scenario 2: A opens "Pizza" on a closed ledger, B
\* submits "Margherita", C sends close, A sends close, someone sends list.
\* The number of steps of it the events so far end with, given that they
\* ended with k steps of it before this event
ScenarioStep(k, event) ==
    LET p == event.post
        a == Accepted(event)
        open == <<"o","p","e","n">>
        submit == <<"s","u","b","m","i","t">>
        close == <<"c","l","o","s","e">>
        list == <<"l","i","s","t">>
    IN  IF a /\ p.UserId = "A" /\ p.Message = OrderText(open, Pizza)
             /\ orderUser = "" /\ orderDetail = <<>> THEN 1
        ELSE IF k = 1 /\ a /\ p.UserId = "B" /\ p.Message = OrderText(submit, Margherita) THEN 2
        ELSE IF k = 2 /\ a /\ p.UserId = "C" /\ p.Message = OrderText(close, <<>>) THEN 3
        ELSE IF k = 3 /\ a /\ p.UserId = "A" /\ p.Message = OrderText(close, <<>>) THEN 4
        ELSE IF k = 4 /\ a /\ p.Message = OrderText(list, <<>>) THEN 5
        ELSE 0

handleWebSocketEvent(event) ==
    /\ running
    /\ prev' = Ledger
    /\ scenario' = ScenarioStep(scenario, event)
    /\ IF Accepted(event)
       THEN /\ post' = event.post
            /\ handleCommand(event.post)
       ELSE /\ post' = NoPost
            /\ sent' = <<>>
            /\ UNCHANGED <<orderUser, orderDetail, orders, ordersNil, running>>

\* the signal goroutine of setupGracefulShutdown
Interrupt ==
    /\ running
    /\ running' = FALSE
    /\ sent' = <<Stopped>>
    /\ post' = NoPost
    /\ prev' = Ledger
    /\ scenario' = 0
    /\ UNCHANGED <<orderUser, orderDetail, orders, ordersNil>>

Next ==
    \/ \E event \in Events :
         handleWebSocketEvent(event) /\ UNCHANGED <<funVars, listenVars>>
    \/ Interrupt /\ UNCHANGED <<funVars, listenVars>>

Spec == Init /\ [][Next]_vars

(***************************************************************************)
(* The classifier on its own: two users send every message of             *)
(* ClassifyMessages to the bot directly                                    *)
(***************************************************************************)
DirectEvent(u, m) ==
    [isNil |-> FALSE, Event |-> "posted", postOk |-> TRUE,
     post |-> [UserId |-> u, Message |-> m, ChannelId |-> "town", Id |-> "post"],
     mentions |-> [ok |-> TRUE, ids |-> <<BotId>>]]

\* the users of the classifier's run
ClassifyUsers == {"A", "B"}

ClassifyNext ==
    \E u \in ClassifyUsers, m \in ClassifyMessages :
        handleWebSocketEvent(DirectEvent(u, m)) /\ UNCHANGED <<funVars, listenVars>>

ClassifySpec == Init /\ [][ClassifyNext]_vars

(***************************************************************************)
(* The event filter on its own: three messages come from every author,     *)
(* with every mention list, in every channel; input is the last event      *)
(***************************************************************************)
FilterMessages ==
    { OrderText(<<"o","p","e","n">>, Pizza),
      OrderText(<<"s","u","b","m","i","t">>, Margherita),
      AtBot \o <<" ","h","e","l","p">> }

NilEvent ==
    [isNil |-> TRUE, Event |-> "", postOk |-> FALSE, post |-> NoPost,
     mentions |-> NoMentions]

FilterEvents ==
    { NilEvent,
      [isNil |-> FALSE, Event |-> "typing", postOk |-> FALSE, post |-> NoPost,
       mentions |-> NoMentions],
      [isNil |-> FALSE, Event |-> "posted", postOk |-> FALSE, post |-> NoPost,
       mentions |-> NoMentions] }
    \cup { [isNil |-> FALSE, Event |-> "posted", postOk |-> TRUE, post |-> p,
            mentions |-> md] :
             p \in { q \in Posts : q.Message \in FilterMessages }, md \in MentionData }

FilterInit == BotInit /\ input = NilEvent /\ output = <<>> /\ ListenIdle

FilterNext ==
    \E event \in FilterEvents :
        /\ handleWebSocketEvent(event)
        /\ input' = event
        /\ UNCHANGED <<output, listenVars>>

FilterSpec == FilterInit /\ [][FilterNext]_vars

(***************************************************************************)
(* The listener, statement by statement: startListening, main.go lines     *)
(* 291-301, takes events from EventChannel and calls handleWebSocketEvent, *)
(* whose order commands are stepped one statement of handleOrder at a     *)
(* time, while the websocket client delivers further events and the       *)
(* signal goroutine may end the process                                    *)
(***************************************************************************)
\* how many events the websocket client delivers in this run
MaxArrivals == 3

ListenUsers == {"A", "B"}

\* the order commands delivered in this run, each mentioning the bot
ListenMessages ==
    { OrderText(<<"o","p","e","n">>, Pizza),
      OrderText(<<"s","u","b","m","i","t">>, Margherita),
      OrderText(<<"c","l","o","s","e">>, <<>>) }

ListenPosts ==
    [ UserId : ListenUsers, Message : ListenMessages, ChannelId : {"town"}, Id : {"post"} ]

\* the websocket client's goroutine puts the next event into EventChannel
Deliver ==
    /\ running
    /\ arrived < MaxArrivals
    /\ \E p \in ListenPosts :
         EventChannel' = Append(EventChannel, [post |-> p, n |-> arrived + 1])
    /\ arrived' = arrived + 1
    /\ UNCHANGED <<orderUser, orderDetail, orders, ordersNil, running, sent, calls, done>>

\* the loop with a goroutine started for every event it takes
Receive_Spawn ==
    /\ running
    /\ EventChannel # <<>>
    /\ calls' = Append(calls, [post |-> Head(EventChannel).post, n |-> Head(EventChannel).n,
                               pc |-> "switch", rows |-> <<>>])
    /\ EventChannel' = Tail(EventChannel)
    /\ sent' = <<>>
    /\ UNCHANGED <<orderUser, orderDetail, orders, ordersNil, running, arrived, done>>

\* case event := <-bot.wsClient.EventChannel: the loop is back at the select
\* once the call it made has returned
Receive ==
    /\ running
    /\ calls = <<>>
    /\ EventChannel # <<>>
    /\ calls' = <<[post |-> Head(EventChannel).post, n |-> Head(EventChannel).n,
                   pc |-> "switch", rows |-> <<>>]>>
    /\ EventChannel' = Tail(EventChannel)
    /\ sent' = <<>>
    /\ UNCHANGED <<orderUser, orderDetail, orders, ordersNil, running, arrived, done>>

\* call i goes on at statement pc
Goto(i, pc) ==
    /\ calls' = [calls EXCEPT ![i].pc = pc]
    /\ UNCHANGED done

\* call i returns
Return(i) ==
    /\ calls' = SubSeq(calls, 1, i - 1) \o SubSeq(calls, i + 1, Len(calls))
    /\ done' = done + 1

\* call i sends msg and returns
ReplyAndReturn(i, msg) ==
    /\ sent' = <<sendMessage(msg, calls[i].post.ChannelId, calls[i].post.Id)>>
    /\ Return(i)
    /\ UNCHANGED <<orderUser, orderDetail, orders, ordersNil, running>>

\* the next statement of call i of handleOrder; a statement is named by
\* the case and the line of main.go it is on
Statement(i) ==
    LET c == calls[i]
        p == c.post
        content == Matches[p.Message].submatch.content
        same == <<orderUser, orderDetail, orders, ordersNil, running, sent>>
    IN  CASE c.pc = "switch" ->
               /\ Goto(i, CASE Matches[p.Message].submatch.command = "open" -> "open377"
                            [] Matches[p.Message].submatch.command = "submit" -> "submit397"
                            [] OTHER -> "close418")
               /\ UNCHANGED same
          [] c.pc = "open377" ->
               /\ Goto(i, IF orderDetail # <<>> THEN "open378" ELSE "open389")
               /\ UNCHANGED same
          [] c.pc = "open378" ->
               IF orderUser = p.UserId
               THEN Goto(i, "open379") /\ UNCHANGED same
               ELSE ReplyAndReturn(i, Text("Not overwriting active order"))
          [] c.pc = "open379" ->
               /\ orderDetail' = content
               /\ Goto(i, "open380")
               /\ UNCHANGED <<orderUser, orders, ordersNil, running, sent>>
          [] c.pc = "open380" -> ReplyAndReturn(i, Text("Updated order details"))
          [] c.pc = "open389" ->
               /\ orderUser' = p.UserId
               /\ Goto(i, "open390")
               /\ UNCHANGED <<orderDetail, orders, ordersNil, running, sent>>
          [] c.pc = "open390" ->
               /\ orderDetail' = content
               /\ Goto(i, "open391")
               /\ UNCHANGED <<orderUser, orders, ordersNil, running, sent>>
          [] c.pc = "open391" ->
               /\ orders' = EmptyMap
               /\ ordersNil' = FALSE
               /\ Goto(i, "open394")
               /\ UNCHANGED <<orderUser, orderDetail, running, sent>>
          [] c.pc = "open394" ->
               ReplyAndReturn(i, Msg("#FoodOrder opened by @", Username(p.UserId),
                                     orderDetail, <<>>))
          [] c.pc = "submit397" ->
               IF orderDetail = <<>>
               THEN ReplyAndReturn(i, Text("Cannot submit without active order"))
               ELSE Goto(i, "submit401") /\ UNCHANGED same
          [] c.pc = "submit401" ->
               IF ordersNil
               THEN /\ running' = FALSE
                    /\ UNCHANGED <<orderUser, orderDetail, orders, ordersNil, sent, calls, done>>
               ELSE /\ orders' = MapSet(orders, p.UserId, StripPipe(content))
                    /\ Return(i)
                    /\ UNCHANGED <<orderUser, orderDetail, ordersNil, running, sent>>
          [] c.pc = "close418" ->
               IF orderDetail # <<>> /\ orderUser # p.UserId
               THEN ReplyAndReturn(i, Msg("Only @ can close the active order",
                                          Username(orderUser), <<>>, <<>>))
               ELSE Goto(i, "close424") /\ UNCHANGED same
          [] c.pc = "close424" ->
               IF orderDetail # <<>>
               THEN /\ \E o \in KeyOrders(DOMAIN orders) :
                         calls' = [calls EXCEPT ![i].pc = "close431",
                                                ![i].rows = OrderRows(orders, o)]
                    /\ UNCHANGED done
                    /\ UNCHANGED same
               ELSE /\ Return(i)
                    /\ UNCHANGED same
          [] c.pc = "close431" ->
               /\ orderDetail' = <<>>
               /\ Goto(i, "close432")
               /\ UNCHANGED <<orderUser, orders, ordersNil, running, sent>>
          [] c.pc = "close432" ->
               /\ orderUser' = ""
               /\ Goto(i, "close433")
               /\ UNCHANGED <<orderDetail, orders, ordersNil, running, sent>>
          [] c.pc = "close433" ->
               ReplyAndReturn(i, Msg("**Closing** active order:", "", <<>>, c.rows))

\* a goroutine that is in a call of handleWebSocketEvent runs its next
\* statement
Step ==
    /\ running
    /\ \E i \in DOMAIN calls : Statement(i)
    /\ UNCHANGED <<EventChannel, arrived>>

\* the signal goroutine of setupGracefulShutdown, at any point of the run
Signal ==
    /\ running
    /\ running' = FALSE
    /\ sent' = <<Stopped>>
    /\ UNCHANGED <<orderUser, orderDetail, orders, ordersNil, listenVars>>

ListenNext ==
    \/ Deliver /\ UNCHANGED <<post, prev, scenario, funVars>>
    \/ Receive /\ UNCHANGED <<post, prev, scenario, funVars>>
    \/ Step /\ UNCHANGED <<post, prev, scenario, funVars>>
    \/ Signal /\ UNCHANGED <<post, prev, scenario, funVars>>

ListenSpec == Init /\ [][ListenNext]_vars

(***************************************************************************)
(* The prices of a dish: dishFromNode, main.go lines 140 and 147-152, run  *)
(* on its own on the price nodes of one container                          *)
(***************************************************************************)
\* the most price nodes a container holds in this run
MaxPriceNodes == 4

\* the no-break space, "\xc2\xa0" in main.go
NBSP == "nbsp"

\* scrape.Text of a price node
PriceTexts ==
    { <<>>,
      <<"2", ",", "5", "0">>,
      <<"3", ",", "7", "0", NBSP, "E", "U", "R">> }

\* scrape.FindAll(node.Parent, scrape.ByClass("price")), in document order
PriceNodeLists == UNION { [1..n -> PriceTexts] : n \in 0..MaxPriceNodes }

NotCalled == [state |-> "none", value |-> <<>>]

\* var prices [3]string and the loop that fills it: prices[i] with i >= 3
\* is out of the array's range, a run-time panic
dishPrices(priceNodes) ==
    IF Len(priceNodes) > 3
    THEN [state |-> "panic", value |-> <<>>]
    ELSE [state |-> "returned",
          value |-> [ i \in 1..3 |->
                        IF i <= Len(priceNodes)
                        THEN Replace(priceNodes[i], <<NBSP>>, <<>>)
                        ELSE <<>> ]]

PriceInit == BotInit /\ input \in PriceNodeLists /\ output = NotCalled /\ ListenIdle

ExtractPrices ==
    /\ output = NotCalled
    /\ output' = dishPrices(input)
    /\ UNCHANGED input

PriceNext == ExtractPrices /\ UNCHANGED <<botVars, listenVars>>

PriceSpec == PriceInit /\ [][PriceNext]_vars

(***************************************************************************)
(* The name of a dish: trimNodeName, main.go lines 125-133, run on its own *)
(***************************************************************************)
\* the longest name in this run
MaxNameLen == 5

NameChars == {" ", "(", ")", ",", "a"}

Names == UNION { [1..n -> NameChars] : n \in 0..MaxNameLen }

\* strings.Trim(s, cutset)
RECURSIVE Trim(_, _)
Trim(s, cutset) ==
    IF s = <<>> THEN s
    ELSE IF s[1] \in cutset THEN Trim(Tail(s), cutset)
    ELSE IF s[Len(s)] \in cutset THEN Trim(SubSeq(s, 1, Len(s) - 1), cutset)
    ELSE s

trimNodeName(name) ==
    LET t1 == Trim(name, {" ", "\t", "\n"})
        t2 == Replace(t1, <<"(", " ">>, <<"(">>)
        t3 == Replace(t2, <<" ", ")">>, <<")">>)
        t4 == Replace(t3, <<" ", ",">>, <<",">>)
    IN  Replace(t4, <<" ", " ">>, <<" ">>)

TrimInit == BotInit /\ input \in Names /\ output = NotCalled /\ ListenIdle

\* the name is normalized, and what came out is normalized again
Normalize ==
    /\ output = NotCalled
    /\ output' = [state |-> "returned",
                  value |-> <<trimNodeName(input), trimNodeName(trimNodeName(input))>>]
    /\ UNCHANGED input

TrimNext == Normalize /\ UNCHANGED <<botVars, listenVars>>

TrimSpec == TrimInit /\ [][TrimNext]_vars

(***************************************************************************)
(* Properties                                                              *)
(***************************************************************************)
\* the last event reached handleCommand
Handled == post # NoPost

\* the order sub-command handleOrder ran for the last event ("" when the
\* event was not classified as an order command), and its content
Cmd ==
    IF /\ Handled
       /\ ~Matches[post.Message].status
       /\ ~Matches[post.Message].today
       /\ ~Matches[post.Message].tomorrow
       /\ Matches[post.Message].order
    THEN Matches[post.Message].submatch.command
    ELSE ""

Content == Matches[post.Message].submatch.content

\* the two states of the ledger, spec.md section 3
ClosedState(l) == l.orderUser = "" /\ l.orderDetail = <<>>

OpenState(l) == l.orderUser # "" /\ l.orderDetail # <<>>

\* the last event was answered with exactly the one reply msg, threaded to
\* the triggering post
RepliedWith(msg) ==
    /\ Len(sent) = 1
    /\ sent[1] = [Message |-> msg, ChannelId |-> post.ChannelId, RootId |-> post.Id]

\* the rows of msg are exactly the submissions m, one row per user
ListsExactly(msg, m) ==
    /\ Len(msg.rows) = Cardinality(DOMAIN m)
    /\ Range(msg.rows) = { <<Username(u), m[u]>> : u \in DOMAIN m }

\* s without its '|' characters
WithoutPipe(s) == SelectSeq(s, LAMBDA c : c # "|")

\* C1: every event that passes the filter is answered with exactly one reply
C1_ExactlyOneReply == Handled => Len(sent) = 1

\* C2: owner and description are both empty or both non-empty
C2_OwnerIffDescription == (orderUser = "") <=> (orderDetail = <<>>)

\* C3: open(user, text) on a Closed ledger leaves it Open with owner = user,
\* description = text and no submissions
C3_OpenOnClosedOpens ==
    (Cmd = "open" /\ ClosedState(prev)) =>
        /\ OpenState(Ledger)
        /\ orderUser = post.UserId
        /\ orderDetail = Content
        /\ orders = EmptyMap

\* C4, as claimed: close from the owner of an Open ledger lists exactly the
\* submissions and clears owner, description and the submission map
C4_CloseClearsMap ==
    (Cmd = "close" /\ OpenState(prev) /\ post.UserId = prev.orderUser) =>
        /\ Len(sent) = 1
        /\ ListsExactly(sent[1].Message, prev.orders)
        /\ ClosedState(Ledger)
        /\ orders = EmptyMap

\* C4, amended: close from the owner of an Open ledger answers with the
\* closing listing of exactly the submissions and clears owner and
\* description; the submission map itself is left as it was
C4_CloseClearsOwnerAndDetail ==
    (Cmd = "close" /\ OpenState(prev) /\ post.UserId = prev.orderUser) =>
        /\ \E o \in KeyOrders(DOMAIN prev.orders) :
             RepliedWith(Msg("**Closing** active order:", "", <<>>, OrderRows(prev.orders, o)))
        /\ ListsExactly(sent[1].Message, prev.orders)
        /\ ClosedState(Ledger)
        /\ orders = prev.orders

\* an owner's close of an order with two submissions has been handled
C4_Witness ==
    /\ Cmd = "close"
    /\ OpenState(prev)
    /\ post.UserId = prev.orderUser
    /\ Cardinality(DOMAIN prev.orders) >= 2
    /\ ClosedState(Ledger)

\* C5: open(text) from the owner of an Open ledger keeps it Open with the
\* same owner, replaces the description, keeps the submissions and is
\* answered "updated"
C5_OwnerReopenUpdates ==
    (Cmd = "open" /\ OpenState(prev) /\ post.UserId = prev.orderUser) =>
        /\ OpenState(Ledger)
        /\ orderUser = prev.orderUser
        /\ orderDetail = Content
        /\ orders = prev.orders
        /\ RepliedWith(Text("Updated order details"))

\* C6: while the ledger is Open, an open or close from another user than the
\* owner changes nothing and is rejected, and no handled event from another
\* user changes owner or description
C6_OnlyOwnerChangesOrder ==
    (OpenState(prev) /\ Handled /\ post.UserId # prev.orderUser) =>
        /\ orderUser = prev.orderUser
        /\ orderDetail = prev.orderDetail
        /\ Cmd = "open" =>
             Ledger = prev /\ RepliedWith(Text("Not overwriting active order"))
        /\ Cmd = "close" =>
             /\ Ledger = prev
             /\ RepliedWith(Msg("Only @ can close the active order",
                                Username(prev.orderUser), <<>>, <<>>))

\* another user's close of an Open order with a submission has been rejected
C6_Witness ==
    /\ OpenState(prev)
    /\ Cmd = "close"
    /\ post.UserId # prev.orderUser
    /\ prev.orders # EmptyMap
    /\ Len(sent) = 1

\* C7: a submit while no order is active changes nothing and is rejected
C7_SubmitOnClosedRejected ==
    (Cmd = "submit" /\ prev.orderDetail = <<>>) =>
        /\ Ledger = prev
        /\ RepliedWith(Text("Cannot submit without active order"))

\* a submit with a text has been rejected on a Closed ledger
C7_Witness ==
    /\ Cmd = "submit"
    /\ ClosedState(prev)
    /\ Content # <<>>
    /\ Len(sent) = 1

\* C8: a submit while the ledger is Open stores the text without its '|'
\* under the sender's id and changes nothing else
C8_SubmitStoresStripped ==
    (Cmd = "submit" /\ OpenState(prev)) =>
        /\ DOMAIN orders = DOMAIN prev.orders \cup {post.UserId}
        /\ orders[post.UserId] = WithoutPipe(Content)
        /\ \A u \in DOMAIN prev.orders : u # post.UserId => orders[u] = prev.orders[u]
        /\ orderUser = prev.orderUser
        /\ orderDetail = prev.orderDetail

\* a submit holding a '|' has overwritten the sender's earlier, different
\* submission while another user's submission was in the map
C8_Witness ==
    /\ Cmd = "submit"
    /\ OpenState(prev)
    /\ \E i \in DOMAIN Content : Content[i] = "|"
    /\ post.UserId \in DOMAIN prev.orders
    /\ prev.orders[post.UserId] # WithoutPipe(Content)
    /\ \E u \in DOMAIN prev.orders : u # post.UserId
    /\ orders[post.UserId] = WithoutPipe(Content)

\* C9: list never changes the ledger; it is rejected when no order is
\* active and otherwise shows the description and exactly the submissions
C9_ListIsReadOnly ==
    Cmd = "list" =>
        /\ Ledger = prev
        /\ prev.orderDetail = <<>> => RepliedWith(Text("Cannot list without active order"))
        /\ prev.orderDetail # <<>> =>
             /\ \E o \in KeyOrders(DOMAIN prev.orders) :
                  RepliedWith(Msg("**[Active order]** ", "", prev.orderDetail,
                                  OrderRows(prev.orders, o)))
             /\ ListsExactly(sent[1].Message, prev.orders)

\* a list of an Open order with two submissions has been answered
C9_Witness ==
    /\ Cmd = "list"
    /\ OpenState(prev)
    /\ Cardinality(DOMAIN prev.orders) >= 2
    /\ Len(sent) = 1
    /\ Len(sent[1].Message.rows) >= 2

\* C10: in scenario 2, C's close is rejected naming A and leaves the order
\* Open, A's close lists exactly B's "Margherita" and leaves the ledger
\* Closed, and the list that follows is rejected
C10_Scenario2 ==
    /\ scenario = 3 =>
         /\ RepliedWith(Msg("Only @ can close the active order", Username("A"), <<>>, <<>>))
         /\ OpenState(Ledger)
         /\ Ledger = prev
    /\ scenario = 4 =>
         /\ RepliedWith(Msg("**Closing** active order:", "", <<>>,
                            << <<Username("B"), Margherita>> >>))
         /\ ClosedState(Ledger)
    /\ scenario = 5 =>
         /\ RepliedWith(Text("Cannot list without active order"))
         /\ ClosedState(Ledger)

\* the five steps of scenario 2 have been handled
C10_Witness == scenario = 5

\* the groups of patterns, in the order spec.md section 4.4 gives them
Groups == <<"status", "today", "tomorrow", "order", "legend", "help", "thanks">>

\* the first group with a pattern that matches m
FirstGroup(m) ==
    LET hits == { i \in DOMAIN Groups : Matches[m][Groups[i]] }
    IN  IF hits = {} THEN "unrecognized"
        ELSE Groups[CHOOSE i \in hits : \A j \in hits : i <= j]

\* the texts the order handler answers with
OrderReplyTexts ==
    { "Updated order details", "Not overwriting active order", "#FoodOrder opened by @",
      "Cannot submit without active order", "Cannot list without active order",
      "**[Active order]** ", "Only @ can close the active order",
      "**Closing** active order:" }

\* a menu handler ran with this heading: it fetched the plan and answered
\* with it, or the fetch failed
MenuRan(prefix) ==
    /\ Ledger = prev
    /\ \/ sent = <<>> /\ ~running
       \/ Len(sent) = 1 /\ running /\ sent[1].Message.text = prefix

\* what the last event left behind is what the handler of group g leaves
HandlerRan(g) ==
    CASE g = "status" -> RepliedWith(Text("Yes I'm up and running!")) /\ Ledger = prev
      [] g = "today" -> MenuRan("**Heute gibt es:**")
      [] g = "tomorrow" -> MenuRan("**Morgen gibt es:**")
      [] g = "order" ->
           /\ running
           /\ sent = <<>> \/ (Len(sent) = 1 /\ sent[1].Message.text \in OrderReplyTexts)
      [] g = "legend" -> RepliedWith(Text("**Legende:**")) /\ Ledger = prev
      [] g = "help" -> RepliedWith(Text("**Need help?**")) /\ Ledger = prev
      [] g = "thanks" ->
           /\ \E idx \in DOMAIN Pleasures : RepliedWith(Text(Pleasures[idx]))
           /\ Ledger = prev
      [] OTHER -> RepliedWith(Text("**What does this even mean?!**")) /\ Ledger = prev

\* C11: the handler that runs for a handled message is that of the first
\* group, in the order Status, Today, Tomorrow, Order, Legend, Help, Thanks,
\* with a pattern that matches it, and the handler of no other group runs
\* (a failed fetch looks the same for the two menu handlers)
C11_FirstGroupWins ==
    Handled =>
        /\ HandlerRan(FirstGroup(post.Message))
        /\ \A g \in Range(Groups) \cup {"unrecognized"} :
             (g # FirstGroup(post.Message) /\ running) => ~HandlerRan(g)

\* "help today" has been answered with today's menu
C11_Witness ==
    /\ Handled
    /\ post.Message = <<"@","b","o","t"," ","h","e","l","p"," ","t","o","d","a","y">>
    /\ Matches[post.Message].help
    /\ Len(sent) = 1
    /\ sent[1].Message.text = "**Heute gibt es:**"

\* an event has been through handleWebSocketEvent
Filtered == sent # <<Started>>

\* the condition of spec.md section 4.5 on an event
ShouldHandle(event) ==
    /\ ~event.isNil /\ event.Event = "posted" /\ event.postOk
    /\ event.post.UserId # BotId
    /\ \/ /\ event.mentions.ok
          /\ Len(event.mentions.ids) <= 3
          /\ BotId \in Range(event.mentions.ids)
       \/ /\ ~event.mentions.ok
          /\ event.post.ChannelId = DebugChannel

\* C12: a posted event reaches the classifier if and only if its author is
\* not the bot and it has a mention list of at most 3 ids that holds the
\* bot's id, or has no mention list and was posted in the debug channel;
\* every other event gets no reply and leaves the ledger as it was
C12_FilterIff ==
    Filtered =>
        /\ Handled <=> ShouldHandle(input)
        /\ Handled => post = input.post /\ (running => Len(sent) <= 1)
        /\ ~Handled => sent = <<>> /\ Ledger = prev /\ running

\* a post that mentions three ids, the bot's one of them, has been handled
C12_Witness ==
    /\ Filtered
    /\ Handled
    /\ input.mentions.ok
    /\ Len(input.mentions.ids) = 3
    /\ Ledger # prev

\* C13: a request for a menu is answered with exactly one reply and the
\* process keeps running, whatever the fetch of the menu page returns; the
\* process stops on the interrupt signal only
C13_FetchFailureIsAReply ==
    /\ (Handled /\ FirstGroup(post.Message) \in {"today", "tomorrow"}) =>
           running /\ Len(sent) = 1
    /\ ~running => sent = <<Stopped>>

\* what the check of statement pc found still holds of the ledger
CheckHolds(c) ==
    CASE c.pc \in {"open378", "submit401"} -> orderDetail # <<>>
      [] c.pc = "open379" -> orderDetail # <<>> /\ orderUser = c.post.UserId
      [] c.pc = "open389" -> orderDetail = <<>>
      [] c.pc = "close424" -> orderDetail = <<>> \/ orderUser = c.post.UserId
      [] c.pc = "close431" -> orderDetail # <<>> /\ orderUser = c.post.UserId
      [] OTHER -> TRUE

\* C14: at most one call of handleWebSocketEvent is under way, it is the
\* call for the event that arrived next after those whose calls have
\* returned, the events that wait are in the order of arrival, and what a
\* call has checked of the ledger still holds when it acts on it
C14_OneEventAtATime ==
    /\ Len(calls) <= 1
    /\ \A i \in DOMAIN calls : calls[i].n = done + i /\ CheckHolds(calls[i])
    /\ \A k \in DOMAIN EventChannel : EventChannel[k].n = done + Len(calls) + k

\* an open has passed its check and has not yet set the description, while
\* another user's open waits in EventChannel and the process runs
C14_Witness ==
    /\ running
    /\ Len(calls) = 1
    /\ calls[1].pc = "open390"
    /\ EventChannel # <<>>
    /\ Matches[Head(EventChannel).post.Message].submatch.command = "open"
    /\ Head(EventChannel).post.UserId # calls[1].post.UserId

\* C15: whatever the number of price nodes, the extraction returns exactly
\* three price strings: the texts of the first three nodes, in document
\* order and without no-break spaces, then empty strings
C15_ThreePriceTiers ==
    output # NotCalled =>
        /\ output.state = "returned"
        /\ Len(output.value) = 3
        /\ \A i \in 1..3 :
             output.value[i] =
                 IF i <= Len(input) THEN SelectSeq(input[i], LAMBDA c : c # NBSP) ELSE <<>>

\* t occurs somewhere in s
Contains(s, t) == \E i \in 1..Len(s) : OccursAt(t, s, i)

\* C16: a normalized name is left as it is by a second normalization, and
\* it holds no two spaces in a row, no space after "(" and no space before
\* "," or ")"
C16_NormalizeIdempotent ==
    output # NotCalled =>
        /\ output.value[2] = output.value[1]
        /\ ~Contains(output.value[1], <<" ", " ">>)
        /\ ~Contains(output.value[1], <<"(", " ">>)
        /\ ~Contains(output.value[1], <<" ", ",">>)
        /\ ~Contains(output.value[1], <<" ", ")">>)

\* what the last event left behind is what sub-command cmd of the order
\* handler leaves
SubCommandRan(cmd) ==
    LET replies ==
            CASE cmd = "open" -> { "Updated order details", "Not overwriting active order",
                                   "#FoodOrder opened by @" }
              [] cmd = "submit" -> { "Cannot submit without active order" }
              [] cmd = "list" -> { "Cannot list without active order", "**[Active order]** " }
              [] OTHER -> { "Only @ can close the active order", "**Closing** active order:" }
    IN  /\ running
        /\ \/ sent = <<>> /\ cmd \in {"submit", "close"}
           \/ Len(sent) = 1 /\ sent[1].Message.text \in replies

\* C17: a handled message is classified as the same message in lower case
\* is: the handler of the same group runs, and for an order command the
\* same sub-command
C17_CaseInsensitive ==
    Handled =>
        LET m == Fold(post.Message)
        IN  /\ HandlerRan(FirstGroup(m))
            /\ FirstGroup(m) = "order" => SubCommandRan(Matches[m].submatch.command)

\* the submission of user u that the last event found in an order with a
\* description is still stored and can be listed
StillListed(u) ==
    /\ orderDetail # <<>>
    /\ u \in DOMAIN orders
    /\ orders[u] = prev.orders[u]

\* the last event was the owner's close, answered with a closing listing
\* that holds the submission of user u
ClosedListing(u) ==
    /\ Cmd = "close"
    /\ post.UserId = prev.orderUser
    /\ Len(sent) = 1
    /\ sent[1].Message.text = "**Closing** active order:"
    /\ <<Username(u), prev.orders[u]>> \in Range(sent[1].Message.rows)

\* C18: a submission stored in an order that takes submits stays stored and
\* listable over every event, unless its user submits again or the owner
\* closes the order and the closing listing holds it
C18_SubmissionsNotLost ==
    \A u \in DOMAIN prev.orders :
        prev.orderDetail # <<>> =>
            \/ StillListed(u)
            \/ Cmd = "submit" /\ post.UserId = u /\ orderDetail # <<>> /\ u \in DOMAIN orders
            \/ ClosedListing(u)

\* the last message holds a keyword of the status or of a menu pattern
HoldsEarlyKeyword ==
    \/ REG_EXP_STATUS(post.Message)
    \/ REG_EXP_TODAY(post.Message)
    \/ REG_EXP_TOMORROW(post.Message)

\* C19: the ledger changes only when the order handler runs: an event that
\* is not handled, or whose message holds a status, today or tomorrow
\* keyword, or does not match the order pattern, leaves owner,
\* description and submissions as they were, also when the message has the
\* form of an order command
C19_LedgerChangesOnlyOnOrder ==
    (~Handled \/ HoldsEarlyKeyword \/ ~REG_EXP_ORDER(post.Message)) => Ledger = prev

\* a submit whose content holds a status keyword reached the bot while an
\* order took submits, and was answered as a status request
C19_Witness ==
    /\ Handled
    /\ post.Message = <<"@","b","o","t"," ","o","r","d","e","r"," ",
                        "s","u","b","m","i","t"," ","u","p">>
    /\ REG_EXP_ORDER(post.Message)
    /\ OpenState(prev)
    /\ post.UserId \notin DOMAIN orders
    /\ RepliedWith(Text("Yes I'm up and running!"))

\* C20: whenever the description is not empty the map of submissions has
\* been made, and no submit ends the process by writing to the nil map
C20_DescriptionImpliesMap ==
    /\ orderDetail # <<>> => ~ordersNil
    /\ Cmd = "submit" => running

\* a submit has been stored in the map of an order with a description
C20_Witness ==
    /\ Cmd = "submit"
    /\ prev.orderDetail # <<>>
    /\ running
    /\ ~ordersNil
    /\ post.UserId \in DOMAIN orders
    /\ post.UserId \notin DOMAIN prev.orders

=============================================================================
